---- MODULE Spec2Model ----
(***************************************************************************)
(* SurfaceCodeDiagram of src/components/Diagrams.tsx: two React state      *)
(* lists (errors, measurementErrors), three click handlers that enqueue    *)
(* state updates, and the render that applies the queued updates and       *)
(* recomputes activeStabilizers and the status line.                       *)
(* TransformerDecoderDiagram of the same file: the step counter, the       *)
(* play/pause flag, the interval its effect sets and clears, and the       *)
(* previous/next controls.                                                 *)
(***************************************************************************)
EXTENDS Integers, Sequences, FiniteSets, TLC

\* Number of clicks (handler calls) explored in one session.
MaxClicks == 5

\* An id that is no key of adjacency and no stabilizer: the argument of a
\* direct call of a toggle with an unknown id (SpecApi only).
UnknownId == 7

VARIABLES
  errors,                  \* useState<number[]>([]), as the last render saw it
  measurementErrors,       \* useState<number[]>([]), as the last render saw it
  activeStabilizers,       \* the list the last render computed
  statusLine,              \* the status text the last render produced
  errorsQueue,             \* updates passed to setErrors, not yet rendered
  measurementErrorsQueue,  \* updates passed to setMeasurementErrors, not yet rendered
  history,                 \* the last two handler calls, each with the state it was called in
  clicks,                  \* handler calls so far
  \* TransformerDecoderDiagram
  step,                    \* useState(0), as the last render saw it
  isPlaying,               \* useState(true), as the last render saw it
  attentionHeads,          \* useState(4), as the last render saw it
  intervals,               \* intervals set by the effect and not cleared
  stepQueue,               \* updaters passed to setStep, not yet rendered
  isPlayingQueue,          \* values passed to setIsPlaying, not yet rendered
  attentionHeadsQueue,     \* values passed to setAttentionHeads, not yet rendered
  lastEvent                \* the callback run last: a timer tick or a control's handler

surfaceVars == <<errors, measurementErrors, activeStabilizers, statusLine,
                 errorsQueue, measurementErrorsQueue, history, clicks>>

decoderVars == <<step, isPlaying, attentionHeads, intervals,
                 stepQueue, isPlayingQueue, attentionHeadsQueue, lastEvent>>

vars == <<surfaceVars, decoderVars>>

-----------------------------------------------------------------------------
\* Array helpers of the JavaScript the component uses.

\* Array.prototype.includes
Includes(arr, x) == \E i \in 1..Len(arr) : arr[i] = x

\* The elements of a list, as a set.
Members(arr) == {arr[i] : i \in 1..Len(arr)}

\* parseInt of a property key; the keys of adjacency are single digits.
parseInt(key) ==
  CASE key = "0" -> 0 [] key = "1" -> 1 [] key = "2" -> 2 [] key = "3" -> 3
    [] key = "4" -> 4 [] key = "5" -> 5 [] key = "6" -> 6 [] key = "7" -> 7
    [] key = "8" -> 8 [] key = "9" -> 9

\* Object.entries(adjacency): [key, value] pairs, integer-like keys ascending.
adjacency ==
  << <<"0", <<0, 1>>>>,
     <<"1", <<0, 2>>>>,
     <<"2", <<1, 3>>>>,
     <<"3", <<2, 3>>>>,
     <<"4", <<0, 1, 2, 3>>>> >>

\* Mutant: one more data-qubit button, with an id adjacency has no entry for.
DataQubitButtonsWithStray == <<0, 1, 4, 2, 3, 5>>

\* The ids of the stabilizer buttons and of the data-qubit buttons.
StabilizerButtons == <<0, 1, 2, 3>>
DataQubitButtons == <<0, 1, 4, 2, 3>>

-----------------------------------------------------------------------------
\* The state updaters of the two toggles.

\* Mutant: the filter keeps the toggled id and drops every other one.
toggleErrorUpdaterWrongFilter(prev, id) ==
  IF Includes(prev, id) THEN SelectSeq(prev, LAMBDA e : e = id)
                        ELSE Append(prev, id)

\* Mutant: the toggle never removes an id that is already in the list.
toggleErrorUpdaterAddOnly(prev, id) ==
  IF Includes(prev, id) THEN prev ELSE Append(prev, id)

toggleErrorUpdater(prev, id) ==
  IF Includes(prev, id) THEN SelectSeq(prev, LAMBDA e : e # id)
                        ELSE Append(prev, id)

\* Mutant: the toggle never removes a check that is already in the list.
toggleMeasurementErrorUpdaterAddOnly(prev, id) ==
  IF Includes(prev, id) THEN prev ELSE Append(prev, id)

toggleMeasurementErrorUpdater(prev, id) ==
  IF Includes(prev, id) THEN SelectSeq(prev, LAMBDA e : e # id)
                        ELSE Append(prev, id)

\* Mutants: resetAll without its setErrors([]), without its
\* setMeasurementErrors([]).
resetAllErrorsForgotten == <<>>
resetAllMeasurementErrorsForgotten == <<>>

\* What resetAll passes to setErrors and to setMeasurementErrors.
resetAllErrors == << [fn |-> "value", arg |-> <<>>] >>
resetAllMeasurementErrors == << [fn |-> "value", arg |-> <<>>] >>

-----------------------------------------------------------------------------
\* The render: activeStabilizers and the status line.

\* errorCount after the forEach over Object.entries(adjacency), from entry i on.
RECURSIVE errorCount(_, _, _)
errorCount(errs, stabId, i) ==
  IF i > Len(adjacency) THEN 0
  ELSE (IF Includes(errs, parseInt(adjacency[i][1])) /\ Includes(adjacency[i][2], stabId)
        THEN 1 ELSE 0)
       + errorCount(errs, stabId, i + 1)

\* Mutants: a threshold in place of the parity, and the parity inverted.
calculatedParityThreshold(count) == count >= 1
calculatedParityInverted(count) == count % 2 = 0

calculatedParity(count) == count % 2 # 0

\* Mutants: the measurement error ignored, and OR in place of XOR.
reportedParityOnly(parity, isMeasurementError) == parity
reportedEither(parity, isMeasurementError) == parity \/ isMeasurementError

\* return calculatedParity ? !isMeasurementError : isMeasurementError
reported(parity, isMeasurementError) ==
  IF parity THEN ~isMeasurementError ELSE isMeasurementError

computeActiveStabilizers(errs, meas) ==
  SelectSeq(<<0, 1, 2, 3>>,
            LAMBDA stabId : reported(calculatedParity(errorCount(errs, stabId, 1)),
                                     Includes(meas, stabId)))

\* Mutant: the stable message decided by errors alone.
renderStatusLineErrorsOnly(errs, meas, active) ==
  IF Len(errs) = 0
  THEN "System is stable."
  ELSE "Detected " \o ToString(Len(active)) \o " parity violations."

renderStatusLine(errs, meas, active) ==
  IF Len(errs) = 0 /\ Len(meas) = 0
  THEN "System is stable."
  ELSE "Detected " \o ToString(Len(active)) \o " parity violations."

\* React applies the queued updates of one state variable in order.
RECURSIVE applyErrorsQueue(_, _)
applyErrorsQueue(state, queue) ==
  IF queue = <<>> THEN state
  ELSE applyErrorsQueue(
         IF Head(queue).fn = "updater"
         THEN toggleErrorUpdater(state, Head(queue).arg)
         ELSE Head(queue).arg,
         Tail(queue))

RECURSIVE applyMeasurementErrorsQueue(_, _)
applyMeasurementErrorsQueue(state, queue) ==
  IF queue = <<>> THEN state
  ELSE applyMeasurementErrorsQueue(
         IF Head(queue).fn = "updater"
         THEN toggleMeasurementErrorUpdater(state, Head(queue).arg)
         ELSE Head(queue).arg,
         Tail(queue))

-----------------------------------------------------------------------------
\* TransformerDecoderDiagram: the step updaters and the interval effect.

\* setStep(s => (s + 1) % 4) of the interval callback.
tickUpdater(s) == (s + 1) % 4

\* nextStep and prevStep.
nextStepUpdater(s) == (s + 1) % 4
prevStepUpdater(s) == (s - 1 + 4) % 4

\* React applies the queued updaters of step in order.
RECURSIVE applyStepQueue(_, _)
applyStepQueue(state, queue) ==
  IF queue = <<>> THEN state
  ELSE applyStepQueue(
         CASE Head(queue) = "tick" -> tickUpdater(state)
           [] Head(queue) = "nextStep" -> nextStepUpdater(state)
           [] Head(queue) = "prevStep" -> prevStepUpdater(state),
         Tail(queue))

\* A queue of plain values: the last one passed wins.
applyValueQueue(state, queue) ==
  IF queue = <<>> THEN state ELSE queue[Len(queue)]

\* Mutant: the effect returns no cleanup, the interval is never cleared.
effectCleanupMissing(n, wasPlaying) == n

\* return () => clearInterval(interval): the live intervals after the cleanup
\* of an effect that ran with isPlaying = wasPlaying.
effectCleanup(n, wasPlaying) == IF wasPlaying THEN n - 1 ELSE n

\* if (isPlaying) interval = setInterval(...): the live intervals after the
\* effect body ran.
effectSetup(n, playing) == IF playing THEN n + 1 ELSE n

\* Mutant: the previous and next buttons are never disabled.
navigationDisabledNever(playing) == FALSE

\* disabled={isPlaying} of the previous and next buttons.
navigationDisabled(playing) == playing

\* The values the range input can report: min="1" max="8".
AttentionHeadsValues == <<"1", "2", "3", "4", "5", "6", "7", "8">>

-----------------------------------------------------------------------------
\* The state machine.

Init ==
  /\ errors = <<>>
  /\ measurementErrors = <<>>
  /\ activeStabilizers = computeActiveStabilizers(<<>>, <<>>)
  /\ statusLine = renderStatusLine(<<>>, <<>>, computeActiveStabilizers(<<>>, <<>>))
  /\ errorsQueue = <<>>
  /\ measurementErrorsQueue = <<>>
  /\ history = <<>>
  /\ clicks = 0
  /\ step = 0
  /\ isPlaying = TRUE
  /\ attentionHeads = 4
  /\ intervals = effectSetup(0, TRUE)
  /\ stepQueue = <<>>
  /\ isPlayingQueue = <<>>
  /\ attentionHeadsQueue = <<>>
  /\ lastEvent = "mount"

\* The rendered state a handler is called in.
Snapshot ==
  [errors |-> errors, measurementErrors |-> measurementErrors,
   activeStabilizers |-> activeStabilizers, statusLine |-> statusLine]

\* The history after a call of handler op with arguments args.
Called(op, args) ==
  LET call == [op |-> op, args |-> args, pre |-> Snapshot]
  IN  IF history = <<>> THEN <<call>> ELSE <<history[Len(history)], call>>

\* A click is handled once the updates of the previous one are rendered.
Idle == errorsQueue = <<>> /\ measurementErrorsQueue = <<>>

toggleError(id) ==
  /\ Idle
  /\ clicks < MaxClicks
  /\ errorsQueue' = Append(errorsQueue, [fn |-> "updater", arg |-> id])
  /\ history' = Called("toggleError", <<id>>)
  /\ clicks' = clicks + 1
  /\ UNCHANGED <<errors, measurementErrors, activeStabilizers, statusLine,
                 measurementErrorsQueue>>
  /\ UNCHANGED decoderVars

toggleMeasurementError(id) ==
  /\ Idle
  /\ clicks < MaxClicks
  /\ measurementErrorsQueue' = Append(measurementErrorsQueue, [fn |-> "updater", arg |-> id])
  /\ history' = Called("toggleMeasurementError", <<id>>)
  /\ clicks' = clicks + 1
  /\ UNCHANGED <<errors, measurementErrors, activeStabilizers, statusLine,
                 errorsQueue>>
  /\ UNCHANGED decoderVars

resetAll ==
  /\ Idle
  /\ clicks < MaxClicks
  /\ errorsQueue' = errorsQueue \o resetAllErrors
  /\ measurementErrorsQueue' = measurementErrorsQueue \o resetAllMeasurementErrors
  /\ history' = Called("resetAll", <<>>)
  /\ clicks' = clicks + 1
  /\ UNCHANGED <<errors, measurementErrors, activeStabilizers, statusLine>>
  /\ UNCHANGED decoderVars

\* The re-render React runs when the handler returns: every queued update
\* is applied, then the component body runs on the new state.
Render ==
  /\ ~Idle
  /\ LET errs == applyErrorsQueue(errors, errorsQueue)
         meas == applyMeasurementErrorsQueue(measurementErrors, measurementErrorsQueue)
         active == computeActiveStabilizers(errs, meas)
     IN  /\ errors' = errs
         /\ measurementErrors' = meas
         /\ activeStabilizers' = active
         /\ statusLine' = renderStatusLine(errs, meas, active)
  /\ errorsQueue' = <<>>
  /\ measurementErrorsQueue' = <<>>
  /\ UNCHANGED <<history, clicks>>
  /\ UNCHANGED decoderVars

ClickDataQubit == \E i \in 1..Len(DataQubitButtons) : toggleError(DataQubitButtons[i])
ClickStabilizer == \E i \in 1..Len(StabilizerButtons) : toggleMeasurementError(StabilizerButtons[i])
ClickReset == resetAll

\* The component as rendered: the handlers are called by its buttons only.
Next == ClickDataQubit \/ ClickStabilizer \/ ClickReset \/ Render

Spec == Init /\ [][Next]_vars

\* The handlers called directly, also with an id no button passes.
CallToggleError == \E id \in Members(DataQubitButtons) \cup {UnknownId} : toggleError(id)
CallToggleMeasurementError ==
  \E id \in Members(StabilizerButtons) \cup {UnknownId} : toggleMeasurementError(id)

NextApi == CallToggleError \/ CallToggleMeasurementError \/ ClickReset \/ Render

SpecApi == Init /\ [][NextApi]_vars

-----------------------------------------------------------------------------
\* TransformerDecoderDiagram: the timer, the controls and the render.

\* A callback runs once the updates of the previous one are rendered.
DecoderIdle == stepQueue = <<>> /\ isPlayingQueue = <<>> /\ attentionHeadsQueue = <<>>

\* The callback of a live interval fires.
TimerTick ==
  /\ DecoderIdle
  /\ intervals > 0
  /\ stepQueue' = Append(stepQueue, "tick")
  /\ lastEvent' = "tick"
  /\ UNCHANGED <<step, isPlaying, attentionHeads, intervals, isPlayingQueue,
                 attentionHeadsQueue>>
  /\ UNCHANGED surfaceVars

nextStep ==
  /\ DecoderIdle
  /\ ~navigationDisabled(isPlaying)
  /\ stepQueue' = Append(stepQueue, "nextStep")
  /\ lastEvent' = "nextStep"
  /\ UNCHANGED <<step, isPlaying, attentionHeads, intervals, isPlayingQueue,
                 attentionHeadsQueue>>
  /\ UNCHANGED surfaceVars

prevStep ==
  /\ DecoderIdle
  /\ ~navigationDisabled(isPlaying)
  /\ stepQueue' = Append(stepQueue, "prevStep")
  /\ lastEvent' = "prevStep"
  /\ UNCHANGED <<step, isPlaying, attentionHeads, intervals, isPlayingQueue,
                 attentionHeadsQueue>>
  /\ UNCHANGED surfaceVars

\* onClick={() => setIsPlaying(!isPlaying)}
togglePlaying ==
  /\ DecoderIdle
  /\ isPlayingQueue' = Append(isPlayingQueue, ~isPlaying)
  /\ lastEvent' = "togglePlaying"
  /\ UNCHANGED <<step, isPlaying, attentionHeads, intervals, stepQueue,
                 attentionHeadsQueue>>
  /\ UNCHANGED surfaceVars

\* onChange={(e) => setAttentionHeads(parseInt(e.target.value))}
changeAttentionHeads ==
  /\ DecoderIdle
  /\ \E i \in 1..Len(AttentionHeadsValues) :
       attentionHeadsQueue' = Append(attentionHeadsQueue, parseInt(AttentionHeadsValues[i]))
  /\ lastEvent' = "changeAttentionHeads"
  /\ UNCHANGED <<step, isPlaying, attentionHeads, intervals, stepQueue,
                 isPlayingQueue>>
  /\ UNCHANGED surfaceVars

\* The re-render after a callback: the queued updates are applied, and when
\* isPlaying changed the effect's cleanup and then its body run.
DecoderRender ==
  /\ ~DecoderIdle
  /\ LET playing == applyValueQueue(isPlaying, isPlayingQueue)
     IN  /\ step' = applyStepQueue(step, stepQueue)
         /\ isPlaying' = playing
         /\ attentionHeads' = applyValueQueue(attentionHeads, attentionHeadsQueue)
         /\ intervals' = IF playing # isPlaying
                         THEN effectSetup(effectCleanup(intervals, isPlaying), playing)
                         ELSE intervals
  /\ stepQueue' = <<>>
  /\ isPlayingQueue' = <<>>
  /\ attentionHeadsQueue' = <<>>
  /\ UNCHANGED lastEvent
  /\ UNCHANGED surfaceVars

NextDecoder ==
  TimerTick \/ nextStep \/ prevStep \/ togglePlaying \/ changeAttentionHeads \/ DecoderRender

SpecDecoder == Init /\ [][NextDecoder]_vars

-----------------------------------------------------------------------------
\* Vocabulary of the properties.

\* The handler called last, with the rendered state it was called in.
LastCall == history[Len(history)]

\* The last two handler calls were the same handler with the same arguments.
TwiceInARow(op) ==
  /\ Len(history) = 2
  /\ history[1].op = op
  /\ history[2].op = op
  /\ history[1].args = history[2].args

\* The checks a data qubit is incident to, read off the adjacency table.
IncidentChecks(d) ==
  UNION {Members(adjacency[i][2]) : i \in {j \in 1..Len(adjacency) : parseInt(adjacency[j][1]) = d}}

\* The faulted ids whose adjacency entry contains check s.
FaultedAt(s) == {d \in Members(errors) : s \in IncidentChecks(d)}

\* list with id removed and then put at the end.
MovedToEnd(list, id) == Append(SelectSeq(list, LAMBDA e : e # id), id)

-----------------------------------------------------------------------------
\* C1: in every reachable state a stabilizer s of 0..3 is in activeStabilizers
\* exactly when (the number of faulted ids whose adjacency entry contains s is
\* odd) XOR (s is in measurementErrors): an exact count modulo 2.
C1_ParityXorLaw ==
  \A s \in 0..3 :
    Includes(activeStabilizers, s)
      <=> ((Cardinality(FaultedAt(s)) % 2 = 1) # (s \in Members(measurementErrors)))

\* C1 witness: three faulted qubits at check 0 (odd, not a mere threshold) and
\* check 0 corrupted, so check 0 does not report.
C1_Witness ==
  /\ Idle
  /\ Members(errors) = {0, 1, 4}
  /\ Members(measurementErrors) = {0}
  /\ ~Includes(activeStabilizers, 0)

\* C2: once resetAll has been called and rendered, errors, measurementErrors
\* and activeStabilizers are all empty; and when resetAll is called twice in a
\* row the state after the second call is the state after the first.
C2_ResetClearsAll ==
  (Idle /\ history # <<>> /\ LastCall.op = "resetAll")
    => /\ errors = <<>>
       /\ measurementErrors = <<>>
       /\ activeStabilizers = <<>>
       /\ TwiceInARow("resetAll") => Snapshot = LastCall.pre

\* C2 witness: resetAll twice in a row, the first one called with a faulted
\* qubit and a corrupted check.
C2_Witness ==
  /\ Idle
  /\ TwiceInARow("resetAll")
  /\ history[1].pre.errors # <<>>
  /\ history[1].pre.measurementErrors # <<>>
  /\ errors = <<>>
  /\ measurementErrors = <<>>

\* C3 as stated: after toggleError(id) twice in a row the state (errors,
\* measurementErrors, activeStabilizers) equals the state before the first call.
C3_DoubleToggleErrorIsIdentity ==
  (Idle /\ TwiceInARow("toggleError"))
    => /\ errors = history[1].pre.errors
       /\ measurementErrors = history[1].pre.measurementErrors
       /\ activeStabilizers = history[1].pre.activeStabilizers

\* C3 amended: after toggleError(id) twice in a row errors holds the same ids
\* as before the first call, measurementErrors, activeStabilizers and the
\* status line are unchanged; the list errors itself is unchanged when id was
\* not faulted beforehand, and otherwise is the former list with id moved to
\* its end.
C3_DoubleToggleErrorKeepsMembers ==
  (Idle /\ TwiceInARow("toggleError"))
    => LET before == history[1].pre
           id == history[1].args[1]
       IN  /\ Members(errors) = Members(before.errors)
           /\ Len(errors) = Len(before.errors)
           /\ errors = IF Includes(before.errors, id)
                       THEN MovedToEnd(before.errors, id)
                       ELSE before.errors
           /\ measurementErrors = before.measurementErrors
           /\ activeStabilizers = before.activeStabilizers
           /\ statusLine = before.statusLine

\* C3 witness: the id toggled twice was faulted, and not last in the list, so
\* the list comes back reordered.
C3_Witness ==
  /\ Idle
  /\ TwiceInARow("toggleError")
  /\ Includes(history[1].pre.errors, history[1].args[1])
  /\ errors # history[1].pre.errors
  /\ Members(errors) = Members(history[1].pre.errors)

\* C4 as stated: after toggleMeasurementError(id) twice in a row errors,
\* measurementErrors and activeStabilizers equal their values before the first
\* call.
C4_DoubleToggleMeasurementIsIdentity ==
  (Idle /\ TwiceInARow("toggleMeasurementError"))
    => /\ errors = history[1].pre.errors
       /\ measurementErrors = history[1].pre.measurementErrors
       /\ activeStabilizers = history[1].pre.activeStabilizers

\* C4 amended: after toggleMeasurementError(id) twice in a row
\* measurementErrors holds the same ids as before the first call, errors,
\* activeStabilizers and the status line are unchanged; the list
\* measurementErrors itself is unchanged when id was not corrupted beforehand,
\* and otherwise is the former list with id moved to its end.
C4_DoubleToggleMeasurementKeepsMembers ==
  (Idle /\ TwiceInARow("toggleMeasurementError"))
    => LET before == history[1].pre
           id == history[1].args[1]
       IN  /\ Members(measurementErrors) = Members(before.measurementErrors)
           /\ Len(measurementErrors) = Len(before.measurementErrors)
           /\ measurementErrors = IF Includes(before.measurementErrors, id)
                                  THEN MovedToEnd(before.measurementErrors, id)
                                  ELSE before.measurementErrors
           /\ errors = before.errors
           /\ activeStabilizers = before.activeStabilizers
           /\ statusLine = before.statusLine

\* C4 witness: the check toggled twice was corrupted, and not last in the
\* list, so the list comes back reordered.
C4_Witness ==
  /\ Idle
  /\ TwiceInARow("toggleMeasurementError")
  /\ Includes(history[1].pre.measurementErrors, history[1].args[1])
  /\ measurementErrors # history[1].pre.measurementErrors
  /\ Members(measurementErrors) = Members(history[1].pre.measurementErrors)

\* C5: after a call of resetAll every rendered state is either the state the
\* call was made in or the fully reset state; never one with only one of the
\* two lists cleared.
C5_ResetIsAtomic ==
  (history # <<>> /\ LastCall.op = "resetAll")
    => \/ Snapshot = LastCall.pre
       \/ errors = <<>> /\ measurementErrors = <<>> /\ activeStabilizers = <<>>

\* C5 witness: resetAll was called with both lists non-empty and has been
\* rendered.
C5_Witness ==
  /\ Idle
  /\ history # <<>>
  /\ LastCall.op = "resetAll"
  /\ LastCall.pre.errors # <<>>
  /\ LastCall.pre.measurementErrors # <<>>
  /\ Snapshot # LastCall.pre

\* C6 as stated: a toggle called with an unknown id leaves errors,
\* measurementErrors and activeStabilizers unchanged and the unknown id is
\* never stored.
C6_UnknownIdIsNoOp ==
  /\ ~Includes(errors, UnknownId)
  /\ ~Includes(measurementErrors, UnknownId)
  /\ (Idle /\ history # <<>> /\ LastCall.args = <<UnknownId>>)
       => /\ errors = LastCall.pre.errors
          /\ measurementErrors = LastCall.pre.measurementErrors
          /\ activeStabilizers = LastCall.pre.activeStabilizers

\* C7: with exactly one faulted site and no corrupted check, exactly the checks
\* incident to that site report: one check for a site incident to one check,
\* two for a site incident to two.
C7_SingleFaultReportsIncidentChecks ==
  (Len(errors) = 1 /\ measurementErrors = <<>>)
    => /\ Members(activeStabilizers) = IncidentChecks(errors[1])
       /\ Cardinality(IncidentChecks(errors[1])) = 1 => Len(activeStabilizers) = 1
       /\ Cardinality(IncidentChecks(errors[1])) = 2 => Len(activeStabilizers) = 2

\* C7 witness: from the empty state data qubit 1 is faulted; checks 0 and 2,
\* its two incident checks, report.
C7_Witness ==
  /\ Idle
  /\ Len(history) = 1
  /\ LastCall.op = "toggleError"
  /\ LastCall.pre.errors = <<>>
  /\ LastCall.pre.measurementErrors = <<>>
  /\ errors = <<1>>
  /\ activeStabilizers = <<0, 2>>

\* C8: when errors is empty and measurementErrors holds exactly one check c,
\* activeStabilizers is exactly the list of c.
C8_LoneCorruptedCheckReports ==
  (errors = <<>> /\ Len(measurementErrors) = 1)
    => activeStabilizers = <<measurementErrors[1]>>

\* C8 witness: check 2 corrupted, no site faulted, check 2 reports.
C8_Witness ==
  /\ Idle
  /\ errors = <<>>
  /\ measurementErrors = <<2>>
  /\ activeStabilizers = <<2>>

\* C9: when d is the only faulted site, no corrupted check incident to d is
\* in activeStabilizers, whichever of the two toggles came first.
C9_FaultAndCorruptionCancel ==
  Len(errors) = 1
    => \A c \in Members(measurementErrors) \cap IncidentChecks(errors[1]) :
         ~Includes(activeStabilizers, c)

\* C9 witness: check 3 was corrupted first, then its incident data qubit 2 was
\* faulted; check 3 does not report and check 1 does.
C9_Witness ==
  /\ Idle
  /\ Len(history) = 2
  /\ history[1].op = "toggleMeasurementError"
  /\ history[2].op = "toggleError"
  /\ errors = <<2>>
  /\ measurementErrors = <<3>>
  /\ activeStabilizers = <<1>>

\* C10: when errors and measurementErrors are both empty activeStabilizers is
\* empty and the status line is "System is stable."; in every other state the
\* status line reports the number of active stabilizers.
C10_StatusLine ==
  IF errors = <<>> /\ measurementErrors = <<>>
  THEN activeStabilizers = <<>> /\ statusLine = "System is stable."
  ELSE \E n \in 0..4 :
         /\ n = Len(activeStabilizers)
         /\ statusLine = "Detected " \o ToString(n) \o " parity violations."

\* C10 witness: a faulted site whose two checks are both corrupted; the state
\* is not empty and the status line reports 0 violations.
C10_Witness ==
  /\ Idle
  /\ errors # <<>>
  /\ measurementErrors # <<>>
  /\ activeStabilizers = <<>>
  /\ statusLine = "Detected 0 parity violations."

\* The keys of the adjacency table, as numbers.
AdjacencyKeys == {parseInt(adjacency[i][1]) : i \in 1..Len(adjacency)}

\* No element occurs twice in the list.
DuplicateFree(list) == \A i, j \in 1..Len(list) : list[i] = list[j] => i = j

\* C11: a rendered toggleError(id) leaves measurementErrors unchanged and a
\* rendered toggleMeasurementError(id) leaves errors unchanged; each flips the
\* membership of id in its own list and changes the membership of no other id.
C11_TogglesAreIndependent ==
  (Idle /\ history # <<>>)
    => LET before == LastCall.pre
       IN  /\ LastCall.op = "toggleError"
                => /\ measurementErrors = before.measurementErrors
                   /\ Includes(errors, LastCall.args[1])
                        <=> ~Includes(before.errors, LastCall.args[1])
                   /\ Members(errors) \ {LastCall.args[1]}
                        = Members(before.errors) \ {LastCall.args[1]}
           /\ LastCall.op = "toggleMeasurementError"
                => /\ errors = before.errors
                   /\ Includes(measurementErrors, LastCall.args[1])
                        <=> ~Includes(before.measurementErrors, LastCall.args[1])
                   /\ Members(measurementErrors) \ {LastCall.args[1]}
                        = Members(before.measurementErrors) \ {LastCall.args[1]}

\* C11 witness: a faulted qubit is toggled off while another qubit is faulted
\* and a check is corrupted; the other qubit and the check stay as they were.
C11_Witness ==
  /\ Idle
  /\ history # <<>>
  /\ LastCall.op = "toggleError"
  /\ Includes(LastCall.pre.errors, LastCall.args[1])
  /\ Len(LastCall.pre.errors) = 2
  /\ Len(errors) = 1
  /\ measurementErrors # <<>>

====
